---- MODULE Spec2Model ----
(***************************************************************************)
(* Mask Smith: the encrypted-token codec of the extension.                 *)
(*                                                                         *)
(*   src/src/Z85.ts        lines 24-145   the Z85 transport codec          *)
(*   src/src/extension.ts                 readPassword, inputPassword,     *)
(*                                        encryptText, decryptText,        *)
(*                                        maskSelection, copyDecodedContent*)
(*                                                                         *)
(* Byte buffers are sequences of 0..255.  JavaScript strings are sequences *)
(* of UTF-16 code units (integers), so that a character outside the Z85    *)
(* alphabet, or a lone surrogate, is a value the model can hold.           *)
(*                                                                         *)
(* JavaScript numbers are doubles: every value the codec computes is below *)
(* 85^5 < 2^53 and therefore exact.  TLC's integers are 32 bits wide, so   *)
(* a value is held as two 16-bit limbs; the digits computed are those of   *)
(* Math.floor(value / divisor) % radix.                                    *)
(***************************************************************************)
EXTENDS Integers, Sequences, FiniteSets, TLC

VARIABLES
    store,      \* context.secrets: secret-store key -> stored string
    doc,        \* the text of the active document
    clipboard,  \* the text on the system clipboard
    currentKey, \* the module-level currentKey field
    locale,     \* vscode.env.language, lower-cased
    req,        \* the state of each in-flight or finished request
    nStarted,   \* number of requests started so far
    issued,     \* history: the tokens encryptText has returned
    cIn,        \* codec harness: the byte buffer handed to Z85.encode
    cStr,       \* codec harness: the string Z85.encode returned
    cOut,       \* codec harness: the buffer Z85.decode returned
    cpc         \* codec harness: position ("in", "encoded", "decoded")

codecVars == <<cIn, cStr, cOut, cpc>>
mainVars == <<store, doc, clipboard, currentKey, locale, req, nStarted, issued>>
vars == <<mainVars, codecVars>>

----------------------------------------------------------------------------
(* Generic helpers                                                         *)

\* ArrayBuffer.prototype.slice(begin, end), 0-based, end exclusive, clamped.
Slice(buf, begin, end) ==
    LET e == IF end > Len(buf) THEN Len(buf) ELSE end
    IN  IF begin >= e THEN <<>> ELSE SubSeq(buf, begin + 1, e)

SeqsUpTo(S, n) == UNION { [1..k -> S] : k \in 0..n }

\* A number below 2^53 held as two limbs <<hi, lo>>, value = hi * 65536 + lo
\* with 0 <= lo < 65536, so that no intermediate result leaves 32 bits.
\* value * m + a, for small m and a.
MulAdd(v, m, a) ==
    LET lo == v[2] * m + a
    IN  <<(v[1] * m) + (lo \div 65536), lo % 65536>>

\* <<Math.floor(value / d), value % d>>, for small d.
DivMod(v, d) ==
    LET r == (v[1] % d) * 65536 + v[2]
    IN  <<(<<v[1] \div d, r \div d>>), r % d>>

----------------------------------------------------------------------------
(* Z85 transport codec, src/src/Z85.ts                                     *)

\* '0'..'9' 'a'..'z' 'A'..'Z' then . - : + = ^ ! / * ? & < _ ( ) [ ] { } @ % $ #
z85EncodeTable ==
    <<48, 49, 50, 51, 52, 53, 54, 55, 56, 57,
      97, 98, 99, 100, 101, 102, 103, 104, 105, 106,
      107, 108, 109, 110, 111, 112, 113, 114, 115, 116,
      117, 118, 119, 120, 121, 122, 65, 66, 67, 68,
      69, 70, 71, 72, 73, 74, 75, 76, 77, 78,
      79, 80, 81, 82, 83, 84, 85, 86, 87, 88,
      89, 90, 46, 45, 58, 43, 61, 94, 33, 47,
      42, 63, 38, 60, 95, 40, 41, 91, 93, 123,
      125, 64, 37, 36, 35>>

\* Indexed by charCode - 32; entries of characters outside the alphabet are 0.
z85DecodeTable ==
    <<0, 68, 0, 84, 83, 82, 72, 0,
      75, 76, 70, 65, 0, 63, 62, 69,
      0, 1, 2, 3, 4, 5, 6, 7,
      8, 9, 64, 0, 73, 66, 0, 71,
      81, 36, 37, 38, 39, 40, 41, 42,
      43, 44, 45, 46, 47, 48, 49, 50,
      51, 52, 53, 54, 55, 56, 57, 58,
      59, 60, 61, 77, 0, 78, 67, 74,
      0, 10, 11, 12, 13, 14, 15, 16,
      17, 18, 19, 20, 21, 22, 23, 24,
      25, 26, 27, 28, 29, 30, 31, 32,
      33, 34, 35, 79, 0, 80, 0, 0>>

\* Z85.ts 88-89: zero bytes appended to fill the last group of 4.
EncodePadding(length) ==
    LET remainder == length % 4
    IN  4 - (IF remainder = 0 THEN 4 ELSE remainder)

\* Z85.ts 97-107: the characters emitted for one group of 4 bytes; padding is
\* the number of padding bytes in the group (0 unless it is the last group).
EncodeGroup(g, padding) ==
    LET value == <<g[1] * 256 + g[2], g[3] * 256 + g[4]>>
        d5 == DivMod(value, 85)
        d4 == DivMod(d5[1], 85)
        d3 == DivMod(d4[1], 85)
        d2 == DivMod(d3[1], 85)
        d1 == DivMod(d2[1], 85)
        codes == <<d1[2], d2[2], d3[2], d4[2], d5[2]>>
    IN  SubSeq(<<z85EncodeTable[codes[1] + 1], z85EncodeTable[codes[2] + 1],
                 z85EncodeTable[codes[3] + 1], z85EncodeTable[codes[4] + 1],
                 z85EncodeTable[codes[5] + 1]>>, 1, 5 - padding)

\* Z85.ts 94-108: the groups in order, the last one without its padding.
\* Character k of the result is a character of group (k - 1) \div 5 + 1.
EncodeGroups(padded, nGroups, padding) ==
    LET length == 5 * nGroups - padding
        groups == SubSeq([n \in 1..nGroups |->
                            EncodeGroup(SubSeq(padded, 4 * n - 3, 4 * n),
                                        IF n = nGroups THEN padding ELSE 0)],
                         1, nGroups)
    IN  SubSeq([k \in 1..length |-> groups[(k - 1) \div 5 + 1][((k - 1) % 5) + 1]],
               1, length)

\* Z85.ts 52-111, for the concatenation of the buffers passed.
Z85Encode(bytes) ==
    LET length  == Len(bytes)
        padding == EncodePadding(length)
        padded  == bytes \o [i \in 1..padding |-> 0]
        nGroups == (length + padding) \div 4
    IN  EncodeGroups(padded, nGroups, padding)

\* A decoder that pads a string whose length is a multiple of 5 with a whole
\* group.
DecodePaddingAlways(length) == 5 - (length % 5)

\* Z85.ts 114-115: sentinel characters appended to fill the last group of 5.
DecodePadding(length) ==
    LET remainder == length % 5
    IN  5 - (IF remainder = 0 THEN 5 ELSE remainder)

\* Z85.ts 129-130: charCodeAt - 32 looked up in the table; an index outside
\* the table reads undefined, and the group's value becomes NaN.
IsNaNCode(c) == c - 32 < 0 \/ c - 32 >= Len(z85DecodeTable)

DecodeChar(c) == z85DecodeTable[c - 32 + 1]

\* Z85.ts 128-140: the 4 bytes of one group of 5 characters.  setUint8 stores
\* NaN as 0.
DecodeGroup(g) ==
    IF \E i \in 1..5 : IsNaNCode(g[i])
    THEN <<0, 0, 0, 0>>
    ELSE LET v1 == <<0, DecodeChar(g[1])>>
             v2 == MulAdd(v1, 85, DecodeChar(g[2]))
             v3 == MulAdd(v2, 85, DecodeChar(g[3]))
             v4 == MulAdd(v3, 85, DecodeChar(g[4]))
             value == MulAdd(v4, 85, DecodeChar(g[5]))
         IN  <<(value[1] \div 256) % 256, value[1] % 256,
               value[2] \div 256, value[2] % 256>>

\* Z85.ts 128-141: the groups in order.  Byte k of the result is a byte of
\* group (k - 1) \div 4 + 1.
DecodeGroups(padded, nGroups) ==
    LET length == 4 * nGroups
        groups == SubSeq([n \in 1..nGroups |->
                            DecodeGroup(SubSeq(padded, 5 * n - 4, 5 * n))],
                         1, nGroups)
    IN  SubSeq([k \in 1..length |-> groups[(k - 1) \div 4 + 1][((k - 1) % 4) + 1]],
               1, length)

\* Z85.ts 113-144.
Z85Decode(string) ==
    LET padding == DecodePadding(Len(string))
        padded  == string \o [p \in 1..padding |-> z85EncodeTable[Len(z85EncodeTable)]]
        length  == Len(padded)
        nGroups == length \div 5
        all     == DecodeGroups(padded, nGroups)
    IN  SubSeq(all, 1, (length * 4) \div 5 - padding)

----------------------------------------------------------------------------
(* Constants of src/src/extension.ts                                       *)

ENCRYPTION_VERSION == 0
KEY_SIZE == 3
IV_SIZE == 12

\* The key under which the secret store holds the DefaultPasswordPointer.
\* 'default-key'
DEFAULT_KEY == <<100, 101, 102, 97, 117, 108, 116, 45, 107, 101, 121>>

----------------------------------------------------------------------------
(* Platform primitives the extension calls.  They are not code of the      *)
(* repository; the model keeps the properties the code relies on.          *)

\* TextEncoder.encode: UTF-8 of a sequence of UTF-16 code units; a lone
\* surrogate is encoded as U+FFFD.
IsHigh(c) == c >= 55296 /\ c <= 56319
IsLow(c) == c >= 56320 /\ c <= 57343

RECURSIVE Utf8Encode(_)
Utf8Encode(str) ==
    IF str = <<>> THEN <<>>
    ELSE LET c == Head(str)
         IN  IF c < 128 THEN <<c>> \o Utf8Encode(Tail(str))
             ELSE IF c < 2048
             THEN <<192 + (c \div 64), 128 + (c % 64)>> \o Utf8Encode(Tail(str))
             ELSE IF IsHigh(c) /\ Len(str) >= 2 /\ IsLow(str[2])
             THEN LET cp == 65536 + (c - 55296) * 1024 + (str[2] - 56320)
                  IN  <<240 + (cp \div 262144), 128 + ((cp \div 4096) % 64),
                        128 + ((cp \div 64) % 64), 128 + (cp % 64)>>
                      \o Utf8Encode(Tail(Tail(str)))
             ELSE IF IsHigh(c) \/ IsLow(c)
             THEN <<239, 191, 189>> \o Utf8Encode(Tail(str))
             ELSE <<224 + (c \div 4096), 128 + ((c \div 64) % 64), 128 + (c % 64)>>
                  \o Utf8Encode(Tail(str))

IsCont(b) == b >= 128 /\ b <= 191

\* The decoding loop of TextDecoder.decode: an ill-formed byte yields U+FFFD.
RECURSIVE Utf8DecodeRaw(_)
Utf8DecodeRaw(b) ==
    IF b = <<>> THEN <<>>
    ELSE IF b[1] < 128 THEN <<b[1]>> \o Utf8DecodeRaw(Tail(b))
    ELSE IF b[1] >= 194 /\ b[1] <= 223 /\ Len(b) >= 2 /\ IsCont(b[2])
    THEN <<(b[1] - 192) * 64 + (b[2] - 128)>> \o Utf8DecodeRaw(SubSeq(b, 3, Len(b)))
    ELSE IF /\ b[1] >= 224 /\ b[1] <= 239 /\ Len(b) >= 3
            /\ IsCont(b[2]) /\ IsCont(b[3])
            /\ (b[1] = 224 => b[2] >= 160)
            /\ (b[1] = 237 => b[2] <= 159)
    THEN <<(b[1] - 224) * 4096 + (b[2] - 128) * 64 + (b[3] - 128)>>
         \o Utf8DecodeRaw(SubSeq(b, 4, Len(b)))
    ELSE IF /\ b[1] >= 240 /\ b[1] <= 244 /\ Len(b) >= 4
            /\ IsCont(b[2]) /\ IsCont(b[3]) /\ IsCont(b[4])
            /\ (b[1] = 240 => b[2] >= 144)
            /\ (b[1] = 244 => b[2] <= 143)
    THEN LET cp == (b[1] - 240) * 262144 + (b[2] - 128) * 4096
                   + (b[3] - 128) * 64 + (b[4] - 128) - 65536
         IN  <<55296 + (cp \div 1024), 56320 + (cp % 1024)>>
             \o Utf8DecodeRaw(SubSeq(b, 5, Len(b)))
    ELSE <<65533>> \o Utf8DecodeRaw(Tail(b))

\* TextDecoder.decode with the default options: a leading byte order mark is
\* dropped.
Utf8Decode(b) ==
    LET raw == Utf8DecodeRaw(b)
    IN  IF raw # <<>> /\ raw[1] = 65279 THEN Tail(raw) ELSE raw

\* a * b modulo 65521 for a, b below 65521, in 32-bit arithmetic.
MulMod(a, b) ==
    (((a * (b \div 256)) % 65521) * 256 + a * (b % 256)) % 65521

\* A map h |-> (m * h + c) % 65521 of running digests is held as <<m, c>>.
\* Compose(left, right) is left followed by right; <<1, 0>> is the identity.
Compose(left, right) ==
    IF left = <<1, 0>> THEN right
    ELSE IF right = <<1, 0>> THEN left
    ELSE <<MulMod(right[1], left[1]),
           (MulMod(right[1], left[2]) + right[2]) % 65521>>

\* The effect on a running digest of absorbing the bytes x[lo..hi].  One byte
\* v takes h to (33 * h + v + 1) % 65521; a range is its first half followed
\* by its second half.
RECURSIVE AccRange(_, _, _)
AccRange(x, lo, hi) ==
    IF lo > hi THEN <<1, 0>>
    ELSE IF lo = hi THEN <<33, (x[lo] + 1) % 65521>>
    ELSE Compose(AccRange(x, lo, (lo + hi) \div 2),
                 AccRange(x, (lo + hi) \div 2 + 1, hi))

\* A 16-bit running digest of a sequence of bytes, started at 5381: the
\* constant map to 5381 followed by the whole sequence is the constant map to
\* the digest.
Acc(x) == Compose(<<0, 5381>>, AccRange(x, 1, Len(x)))[2]

\* 32 bytes spread from a running digest.  Bytes 4..32 determine it; bytes
\* 1..3 keep one bit of it.
Spread(a) ==
    [i \in 1..32 |->
        IF i <= 3 THEN ((a % 2) * 29 + i * 53) % 256
        ELSE IF i % 2 = 1 THEN ((a % 256) * i + i) % 256
        ELSE ((a \div 256) * (i + 1) + i) % 256]

\* crypto.subtle.digest('SHA-256', x): a deterministic function to 32 bytes.
\* A truncation to KEY_SIZE bytes collides for distinct inputs, as a 24-bit
\* truncation of SHA-256 does among enough inputs; a truncation to IV_SIZE
\* bytes or more does not.
Sha256(x) == Spread(Acc(x))

\* Byte length of the AES-GCM authentication tag (tagLength 128, the default).
TAG_SIZE == 16

KeyStream(seed, i) == (seed + 7 * i) % 256

KeyStreamSeed(key, iv) == (Acc(key) + 3 * Acc(iv)) % 256

AuthTag(key, iv, body) == SubSeq(Sha256(key \o iv \o body), 4, 3 + TAG_SIZE)

\* crypto.subtle.encrypt({name: 'AES-GCM', iv}, key, data): ciphertext
\* followed by the tag.
AesGcmEncrypt(key, iv, data) ==
    LET seed == KeyStreamSeed(key, iv)
        body == [i \in 1..Len(data) |-> (data[i] + KeyStream(seed, i)) % 256]
    IN  body \o AuthTag(key, iv, body)

\* crypto.subtle.decrypt: rejects with an OperationError unless the tag
\* authenticates the ciphertext under the key and the iv.
AesGcmDecrypt(key, iv, data) ==
    IF Len(data) < TAG_SIZE THEN [ok |-> FALSE, data |-> <<>>]
    ELSE LET n == Len(data) - TAG_SIZE
             seed == KeyStreamSeed(key, iv)
             body == SubSeq(data, 1, n)
         IN  IF SubSeq(data, n + 1, Len(data)) # AuthTag(key, iv, body)
             THEN [ok |-> FALSE, data |-> <<>>]
             ELSE [ok |-> TRUE,
                   data |-> [i \in 1..n |->
                               (body[i] + 256 - KeyStream(seed, i)) % 256]]

----------------------------------------------------------------------------
(* Inputs of the model                                                     *)

\* Number of requests started in one behaviour.
MaxRequests == 2

\* The requests that may be in flight at once.
Reqs == {1, 2}

\* What the user may type at a password prompt.  "a" and "b" derive the same
\* KeyIdentifier from different KeyMaterial; "c" derives another identifier.
\* The empty sequence stands for a dismissed prompt and for an empty entry:
\* the code tests both with !password.
Passwords == {<<97>>, <<98>>, <<99>>}
Entries == Passwords \cup {<<>>}

\* The document the editor starts with: "h" and U+FEFF (a zero width no-break
\* space, which TextDecoder takes for a byte order mark at the start of its
\* input).
InitialDoc == <<104, 65279>>

\* The selections the user may make: offsets into the first two characters.
Selections == {se \in (0..2) \X (0..2) : se[1] <= se[2]}

----------------------------------------------------------------------------
(* Locale tables, src/unnamed/part_000, part_003 and the zh-CN table       *)

Locales == {"en", "zh-cn"}

\* The paths under messages.errors, the same in both tables.
ErrorPaths ==
    {"errors.getDefaultKeyFailed", "errors.getPasswordFailed",
     "errors.savePasswordFailed", "errors.passwordNotMatch", "errors.noPassword",
     "errors.invalidPassword", "errors.encryptionFailed",
     "errors.encryptionError", "errors.invalidPasswordDecrypt",
     "errors.decryptionFailed", "errors.decryptionError",
     "errors.setPasswordFailed", "errors.unsupportedFileType",
     "errors.selectText", "errors.unsupportedVersion"}

\* The paths under messages.prompts and messages.ui of each table.
PromptPaths ==
    IF locale = "en"
    THEN {"prompts.enterPassword", "prompts.confirmPassword",
          "prompts.useLassPassword", "prompts.confirm", "prompts.cancel"}
    ELSE {"prompts.enterPassword", "prompts.confirmPassword"}

UiPaths == {"ui.encrypted", "ui.copyToClipboard", "ui.copiedToClipboard"}

\* t(path): the entry of the table of the locale; a path missing from the
\* table yields ''.  The two titles of the reuse dialog are given as the en
\* table has them; any other entry is a non-empty text, written here as its
\* path.
T(path) ==
    IF path \in ErrorPaths \cup PromptPaths \cup UiPaths
    THEN CASE path = "prompts.confirm" -> "Yes"
           [] path = "prompts.cancel" -> "No"
           [] OTHER -> path
    ELSE ""

\* The text a message call shows: t(path), or the literal the call site
\* gives after || (extension.ts 223, 320).
MessageText(path) ==
    IF T(path) # "" THEN T(path)
    ELSE CASE path = "errors.emptyText" -> "Cannot encrypt empty text"
           [] path = "errors.wrongPassword" -> "Incorrect password"
           [] OTHER -> ""

----------------------------------------------------------------------------
(* Key derivation and the envelope                                         *)

\* extension.ts 157-158: KeyMaterial of a password.
ValueBufferOf(password) == Sha256(Utf8Encode(password))

\* extension.ts 159: KeyIdentifier of KeyMaterial.
KeyBufferOf(valueBuffer) == Slice(Sha256(valueBuffer), 0, KEY_SIZE)

\* An IV that also depends on the identifier the pointer names.
HashBufferOfPointer(bytes) ==
    Slice(Sha256(bytes \o (IF DEFAULT_KEY \in DOMAIN store
                           THEN store[DEFAULT_KEY] ELSE <<>>)),
          0, IV_SIZE)

\* extension.ts 231: the content-derived IV.
HashBufferOf(bytes) == Slice(Sha256(bytes), 0, IV_SIZE)

\* A writer that puts the key identifier before the IV.
SerializeKeyFirst(hashBuffer, keyBuffer, version, encryptedBuffer) ==
    Z85Encode(keyBuffer \o hashBuffer \o <<version>> \o encryptedBuffer)

\* extension.ts 241-246: the four fields in order, Z85-encoded.
Serialize(hashBuffer, keyBuffer, version, encryptedBuffer) ==
    Z85Encode(hashBuffer \o keyBuffer \o <<version>> \o encryptedBuffer)

\* A slicing that starts the ciphertext at the version byte.
EnvelopeVersionInCipherText(encryptedBase64) ==
    LET encryptedBuffer == Z85Decode(encryptedBase64)
    IN  [hashBuffer |-> Slice(encryptedBuffer, 0, IV_SIZE),
         keyBuffer |-> Slice(encryptedBuffer, IV_SIZE, IV_SIZE + KEY_SIZE),
         versionBuffer |-> Slice(encryptedBuffer, IV_SIZE + KEY_SIZE,
                                 IV_SIZE + KEY_SIZE + 1),
         cipherText |-> Slice(encryptedBuffer, IV_SIZE + KEY_SIZE,
                              Len(encryptedBuffer))]

\* extension.ts 280-288: the fields sliced from the decoded token.
EnvelopeOf(encryptedBase64) ==
    LET encryptedBuffer == Z85Decode(encryptedBase64)
    IN  [hashBuffer |-> Slice(encryptedBuffer, 0, IV_SIZE),
         keyBuffer |-> Slice(encryptedBuffer, IV_SIZE, IV_SIZE + KEY_SIZE),
         versionBuffer |-> Slice(encryptedBuffer, IV_SIZE + KEY_SIZE,
                                 IV_SIZE + KEY_SIZE + 1),
         cipherText |-> Slice(encryptedBuffer, IV_SIZE + KEY_SIZE + 1,
                              Len(encryptedBuffer))]

\* A decryptText without the version check.
VersionNeverRejected(env) == FALSE

\* extension.ts 284: versionBuffer[0] !== ENCRYPTION_VERSION (an empty
\* versionBuffer reads undefined).
VersionRejected(env) ==
    env.versionBuffer = <<>> \/ env.versionBuffer[1] # ENCRYPTION_VERSION

\* extension.ts 230-246: the token encryptText builds for a text under a
\* password record.
TokenFor(text, keyBuffer, valueBuffer) ==
    LET textBuffer == Utf8Encode(text)
        hashBuffer == HashBufferOf(textBuffer)
    IN  Serialize(hashBuffer, keyBuffer, ENCRYPTION_VERSION,
                  AesGcmEncrypt(valueBuffer, hashBuffer, textBuffer))

----------------------------------------------------------------------------
(* Tokens handed to the decrypt commands                                   *)

\* A token as encryptText builds it for a text and a typed password.
TokenOf(text, password) ==
    TokenFor(text, KeyBufferOf(ValueBufferOf(password)), ValueBufferOf(password))

\* The decoded bytes with the bit of weight w of byte i (1-based) flipped,
\* encoded again.
FlipBit(token, i, w) ==
    LET b == Z85Decode(token)
    IN  Z85Encode([b EXCEPT ![i] = IF (b[i] \div w) % 2 = 0 THEN b[i] + w
                                                               ELSE b[i] - w])

\* The decoded bytes with the version byte set to v, encoded again.
WithVersion(token, v) ==
    Z85Encode([Z85Decode(token) EXCEPT ![IV_SIZE + KEY_SIZE + 1] = v])

\* A token whose ciphertext authenticates under the password but whose IV
\* field is the hash of another text.
ForeignIvToken(text, ivText, password) ==
    LET valueBuffer == ValueBufferOf(password)
        hashBuffer == HashBufferOf(Utf8Encode(ivText))
    IN  Serialize(hashBuffer, KeyBufferOf(valueBuffer), ENCRYPTION_VERSION,
                  AesGcmEncrypt(valueBuffer, hashBuffer, Utf8Encode(text)))

GoodTokens == {TokenOf(<<104>>, <<97>>), TokenOf(<<>>, <<99>>)}

\* Flips in the ciphertext region: the lowest and the highest bit of the
\* encrypted byte, the lowest bit of the first byte of the tag and the highest
\* bit of its last byte.
TamperedTokens ==
    LET token == TokenOf(<<104>>, <<97>>)
        first == IV_SIZE + KEY_SIZE + 2
    IN  {FlipBit(token, first, 1), FlipBit(token, first, 128),
         FlipBit(token, first + 1, 1), FlipBit(token, first + TAG_SIZE, 128)}

OtherVersionTokens ==
    {WithVersion(TokenOf(<<104>>, <<97>>), 1),
     WithVersion(TokenOf(<<104>>, <<97>>), 255)}

\* A token cut short of its fixed-width prefix, and the empty string.
ShortTokens == {SubSeq(TokenOf(<<104>>, <<97>>), 1, 10), <<>>}

\* Selections handed to the copy command: a token between two characters,
\* a token of the text "$$", a good token followed by a tampered one, and a
\* text without a token.  The token texts are written as maskSelection
\* writes them.
SmartCopyInputs ==
    LET M(encoded) == <<60, 33, 77, 65, 83, 75, 45, 83, 77, 73, 84, 72, 58>>
                      \o encoded \o <<62>>
        token == TokenOf(<<104>>, <<97>>)
    IN  {<<120>> \o M(token) \o <<121>>,
         M(TokenOf(<<36, 36>>, <<97>>)),
         M(token) \o M(FlipBit(token, IV_SIZE + KEY_SIZE + 2, 1)),
         <<120>>}

DecryptInputs ==
    GoodTokens \cup TamperedTokens \cup OtherVersionTokens \cup ShortTokens
    \cup {ForeignIvToken(<<104>>, <<105>>, <<97>>)}

----------------------------------------------------------------------------
(* Requests                                                                *)

\* null, as a PasswordData value.
NoPd == [keyBase64 |-> <<>>, keyBuffer |-> <<>>, valueBuffer |-> <<>>]

\* A return value of decryptText: null when ok is FALSE.
NoResult == [ok |-> FALSE, text |-> <<>>]

\* A request slot that holds no request.
IdleReq ==
    [op |-> "none",          \* "mask" (maskSelection), "copy" (copyDecodedContent),
                             \*   "smartcopy" (mask-smith.copy)
     pc |-> "idle",          \* the await the request is suspended at, or "done"
     sel |-> <<0, 0>>,       \* maskSelection: the selection, as offsets
     text |-> <<>>,          \* encryptText: text; handleCopy: text
     matches |-> <<>>,       \* handleCopy: text.matchAll(MASK_PATTERN)
     mi |-> 0,               \* handleCopy: index of the match in hand
     decryptedText |-> <<>>, \* handleCopy: decryptedText
     hasEncryptedContent |-> FALSE,  \* handleCopy: hasEncryptedContent
     token |-> <<>>,         \* decryptText: encryptedBase64
     checkKey |-> <<>>,      \* inputPassword: checkKeyBase64 ('' for null)
     defaultKey |-> <<>>,    \* inputPassword: defaultKey
     lastPd |-> NoPd,        \* inputPassword: lastPasswordData
     password |-> <<>>,      \* inputPassword: password
     found |-> NoPd,         \* inputPassword: passwordData read from the store
     ok |-> FALSE,           \* encryptText / decryptText returned a string
     result |-> <<>>,        \* that string: the token (mask), the text (copy)
     encKey |-> <<>>,        \* history: valueBuffer the AEAD encrypt call used
     decKey |-> <<>>,        \* history: valueBuffer the AEAD decrypt call used
     hadRecord |-> FALSE,    \* history: a record was stored under the token's
                             \*   identifier when decryptText looked it up
     known |-> "",           \* history: "yes"/"no", the store held the typed
                             \*   password's record when inputPassword read it
     store0 |-> <<>>,        \* history: the secret store when the request began
     doc0 |-> <<>>,          \* history: the document when the request began
     verified |-> NoResult,  \* history: what the verifying decryptText returned
     prompts |-> <<>>,       \* history: <<kind, answer>> of the prompts shown
     secrets |-> 0,          \* history: number of secret-store calls made
     writes |-> <<>>,        \* history: <<key, value>> of the store writes made
     edits |-> <<>>,         \* history: the texts written into the document
     replaced |-> <<>>,      \* history: the texts those edits replaced
     decoded |-> <<>>,       \* history: what decryptText returned for each
                             \*   match of handleCopy, in order
     clips |-> <<>>,         \* history: the texts the request wrote to the
                             \*   clipboard
     defaultCopy |-> FALSE,  \* history: the editor's copy action was run
     aead |-> <<>>,          \* history: the AEAD calls made, in order
     msgs |-> {}]            \* history: the messages shown

\* A request that begins now.
NewReq(op) == [IdleReq EXCEPT !.op = op, !.store0 = store, !.doc0 = doc]

\* context.secrets.get: the stored string; undefined is rendered as '',
\* which every caller tests the same way (if (value)).
SecretsGet(key) == IF key \in DOMAIN store THEN store[key] ELSE <<>>

\* context.secrets.store.
SecretsStore(key, value) ==
    [k \in DOMAIN store \cup {key} |-> IF k = key THEN value ELSE store[k]]

\* extension.ts 100-111: the PasswordData readPassword builds from a stored
\* value.
PasswordDataOf(keyBase64, passwordBase64) ==
    [keyBase64 |-> keyBase64,
     keyBuffer |-> Z85Decode(keyBase64),
     valueBuffer |-> Z85Decode(passwordBase64)]

\* A readPassword that never finds a record.
ReadPasswordNull(keyBase64) == NoPd

\* A readPassword that takes the value of the record the pointer names at
\* the time of the call.
ReadPasswordOfPointer(keyBase64) ==
    LET v == SecretsGet(SecretsGet(DEFAULT_KEY))
    IN  IF SecretsGet(keyBase64) = <<>> THEN NoPd
        ELSE PasswordDataOf(keyBase64,
                            IF v # <<>> THEN v ELSE SecretsGet(keyBase64))

\* extension.ts 100-118: readPassword, when the store answers (NoPd for
\* null).
ReadPassword(keyBase64) ==
    LET passwordBase64 == SecretsGet(keyBase64)
    IN  IF passwordBase64 # <<>>
        THEN PasswordDataOf(keyBase64, passwordBase64)
        ELSE NoPd

\* extension.ts 53-64.
compareArrayBuffers(buf1, buf2) ==
    /\ Len(buf1) = Len(buf2)
    /\ \A i \in 1..Len(buf1) : buf1[i] = buf2[i]

\* An inputPassword that takes a dismissed prompt for an entry.
NoPasswordNever(password) == FALSE

\* extension.ts 152: !password, for an empty entry and for a dismissed prompt
\* (undefined).
NoPassword(password) == password = <<>>

\* An inputPassword without the check against checkKeyBase64.
KeyMismatchIgnored(checkKeyBase64, keyBase64) == FALSE

\* extension.ts 166: the typed password is not the one the token needs.
KeyMismatch(checkKeyBase64, keyBase64) ==
    checkKeyBase64 # <<>> /\ checkKeyBase64 # keyBase64

\* An inputPassword that treats every typed password as new.
PasswordNeverKnown(passwordData, valueBuffer) == FALSE

\* extension.ts 173: the typed password is already stored.
PasswordIsKnown(passwordData, valueBuffer) ==
    passwordData # NoPd /\ compareArrayBuffers(passwordData.valueBuffer, valueBuffer)

\* An inputPassword that accepts any confirmation.
ConfirmationAlwaysAccepted(password, confirmPassword) == FALSE

\* extension.ts 191: the confirmation differs from the first entry.
ConfirmationMismatch(password, confirmPassword) == password # confirmPassword

----------------------------------------------------------------------------
(* What a request does between two awaits.  Each operator yields the       *)
(* request's next state and the document, clipboard and history it leaves. *)

Eff(q) == [q |-> q, doc |-> doc, clipboard |-> clipboard, issued |-> issued]

Show(q, m) == [q EXCEPT !.msgs = @ \cup {m}]

\* The request has returned: its frames are gone, its outcome stays.
Done(q) ==
    [q EXCEPT !.pc = "done", !.checkKey = <<>>, !.defaultKey = <<>>,
              !.lastPd = NoPd, !.password = <<>>, !.found = NoPd]

Min(a, b) == IF a < b THEN a ELSE b

\* '<!MASK-SMITH:', the literal head of MASK_PATTERN, extension.ts 6.
MaskPrefix == <<60, 33, 77, 65, 83, 75, 45, 83, 77, 73, 84, 72, 58>>

\* The index of the first '>' at or after s, 0 when there is none.
CloseAfter(text, s) ==
    LET C == {e \in s..Len(text) : text[e] = 62}
    IN  IF C = {} THEN 0 ELSE CHOOSE e \in C : \A f \in C : e <= f

\* MASK_PATTERN tried at index p: the head, then ([^>]+), then '>'.
MatchAt(text, p) ==
    LET s == p + Len(MaskPrefix)
        e == CloseAfter(text, s)
    IN  [found |-> /\ s - 1 <= Len(text)
                   /\ SubSeq(text, p, s - 1) = MaskPrefix
                   /\ e > s,
         end   |-> e,
         whole |-> SubSeq(text, p, e),
         group |-> SubSeq(text, s, e - 1)]

\* text.matchAll(MASK_PATTERN), extension.ts 464: the matches from left to
\* right, each search resuming after the previous match.
RECURSIVE MatchFrom(_, _)
MatchFrom(text, from) ==
    LET P == {p \in from..Len(text) : MatchAt(text, p).found}
    IN  IF P = {} THEN <<>>
        ELSE LET p == CHOOSE x \in P : \A y \in P : x <= y
                 m == MatchAt(text, p)
             IN  <<[whole |-> m.whole, group |-> m.group]>>
                 \o MatchFrom(text, m.end + 1)

MatchAll(text) == MatchFrom(text, 1)

\* A maskSelection that leaves out the closing delimiter.
MaskedTextUnclosed(encoded) == MaskPrefix \o encoded

\* '<!MASK-SMITH:' encoded '>', extension.ts 412.
MaskedText(encoded) ==
    <<60, 33, 77, 65, 83, 75, 45, 83, 77, 73, 84, 72, 58>> \o encoded \o <<62>>

\* editBuilder.replace(selection, text), extension.ts 415-417.
Replace(d, sel, text) ==
    SubSeq(d, 1, Min(sel[1], Len(d))) \o text
    \o SubSeq(d, Min(sel[2], Len(d)) + 1, Len(d))

\* maskSelection 410-420, once encryptText has returned encoded (ok = FALSE
\* for null).
MaskReturn(q, encoded, ok) ==
    IF ~ok \/ encoded = <<>>
    THEN Eff(Done(q))
    ELSE [q |-> Done([q EXCEPT !.ok = TRUE, !.result = encoded,
                               !.edits = Append(@, MaskedText(encoded)),
                               !.replaced = Append(@,
                                   SubSeq(doc, Min(q.sel[1], Len(doc)) + 1,
                                          Min(q.sel[2], Len(doc))))]),
          doc |-> Replace(doc, q.sel, MaskedText(encoded)),
          clipboard |-> clipboard,
          issued |-> issued \cup
                     {[token |-> encoded, text |-> q.text, key |-> q.encKey]}]

\* copyDecodedContent 425-428, once decryptText has returned decoded.
CopyReturn(q, decoded, ok) ==
    IF ~ok
    THEN Eff(Done(q))
    ELSE IF decoded = <<>>
    THEN Eff(Done([q EXCEPT !.ok = TRUE, !.result = decoded]))
    ELSE [q |-> Done(Show([q EXCEPT !.ok = TRUE, !.result = decoded,
                                    !.clips = Append(@, decoded)],
                          "ui.copiedToClipboard")),
          doc |-> doc,
          clipboard |-> decoded,
          issued |-> issued]

\* An encryptText that returns the token without comparing the decrypted
\* text.
VerifyReturnUnchecked(q, decoded, ok) == MaskReturn(q, q.token, TRUE)

\* encryptText 248-259: the verifying decryptText has returned decoded.
VerifyReturn(q, decoded, ok) ==
    IF ok /\ decoded = q.text
    THEN MaskReturn(q, q.token, TRUE)
    ELSE MaskReturn(Show(q, "errors.encryptionFailed"), <<>>, FALSE)

\* The index of the first occurrence of pat in str, 0 when there is none.
IndexOf(str, pat) ==
    LET P == {p \in 1..(Len(str) - Len(pat) + 1) :
                 SubSeq(str, p, p + Len(pat) - 1) = pat}
    IN  IF P = {} THEN 0 ELSE CHOOSE p \in P : \A y \in P : p <= y

\* The replacement text String.prototype.replace builds from a replacement
\* string for a string pattern: '$$' is '$', '$&' the matched text, '$`' the
\* text before the match, "$'" the text after it; a string pattern has no
\* captures, so every other '$' stands for itself.
RECURSIVE Substitute(_, _, _, _)
Substitute(repl, matched, before, after) ==
    IF repl = <<>> THEN <<>>
    ELSE IF repl[1] = 36 /\ Len(repl) >= 2 /\ repl[2] \in {36, 38, 96, 39}
    THEN (CASE repl[2] = 36 -> <<36>>
            [] repl[2] = 38 -> matched
            [] repl[2] = 96 -> before
            [] repl[2] = 39 -> after)
         \o Substitute(SubSeq(repl, 3, Len(repl)), matched, before, after)
    ELSE <<repl[1]>> \o Substitute(Tail(repl), matched, before, after)

\* str.replace(pat, repl) with a string pattern, extension.ts 470: the first
\* occurrence only.
JsReplace(str, pat, repl) ==
    LET p == IndexOf(str, pat)
        before == SubSeq(str, 1, p - 1)
        after == SubSeq(str, p + Len(pat), Len(str))
    IN  IF p = 0 THEN str
        ELSE before \o Substitute(repl, pat, before, after) \o after

\* handleCopy 468-472: the decryptText of the match in hand has returned
\* decoded; the loop resumes after the await.
SmartCopyReturn(q, decoded, ok) ==
    LET match == q.matches[q.mi]
        q1 == [q EXCEPT !.decoded = Append(@, [ok |-> ok, text |-> decoded]),
                        !.checkKey = <<>>, !.defaultKey = <<>>,
                        !.lastPd = NoPd, !.password = <<>>, !.found = NoPd,
                        !.mi = @ + 1, !.pc = "nextMatch"]
    IN  IF ok /\ decoded # <<>>
        THEN Eff([q1 EXCEPT !.decryptedText =
                               JsReplace(@, match.whole, decoded)])
        ELSE Eff(q1)

\* decryptText has returned decoded to its caller: copyDecodedContent,
\* handleCopy, or the verification of encryptText.
DecryptReturn(q, decoded, ok) ==
    IF q.op = "copy"
    THEN CopyReturn(q, decoded, ok)
    ELSE IF q.op = "smartcopy"
    THEN SmartCopyReturn(q, decoded, ok)
    ELSE VerifyReturn([q EXCEPT !.verified = [ok |-> ok, text |-> decoded]],
                      decoded, ok)

\* A decryptText without the comparison of the recomputed hash.
DecryptWithoutHashCheck(q, pd) ==
    LET env == EnvelopeOf(q.token)
        dec == AesGcmDecrypt(pd.valueBuffer, env.hashBuffer, env.cipherText)
        q1 == [q EXCEPT !.decKey = pd.valueBuffer, !.aead = Append(@, "decrypt")]
    IN  IF ~dec.ok
        THEN DecryptReturn(Show(q1, "errors.wrongPassword"), <<>>, FALSE)
        ELSE DecryptReturn(q1, Utf8Decode(dec.data), TRUE)

\* decryptText 292-324 with the PasswordData resolved.
DecryptWith(q, pd) ==
    LET env == EnvelopeOf(q.token)
        dec == AesGcmDecrypt(pd.valueBuffer, env.hashBuffer, env.cipherText)
        q1 == [q EXCEPT !.decKey = pd.valueBuffer, !.aead = Append(@, "decrypt")]
    IN  IF ~dec.ok
        THEN DecryptReturn(Show(q1, "errors.wrongPassword"), <<>>, FALSE)
        ELSE IF ~compareArrayBuffers(HashBufferOf(dec.data), env.hashBuffer)
        THEN DecryptReturn(Show(q1, "errors.decryptionFailed"), <<>>, FALSE)
        ELSE DecryptReturn(q1, Utf8Decode(dec.data), TRUE)

\* decryptText 275-290, up to the await of readPassword(keyBase64).  The
\* request keeps keyBase64 in checkKey: it is the argument of inputPassword
\* when the lookup finds nothing.
DecryptPrologue(q, encryptedBase64) ==
    LET env == EnvelopeOf(encryptedBase64)
        q1 == [q EXCEPT !.token = encryptedBase64]
    IN  IF encryptedBase64 = <<>>
        THEN DecryptReturn(q1, <<>>, FALSE)
        ELSE IF VersionRejected(env)
        THEN DecryptReturn(Show(q1, "errors.unsupportedVersion"), <<>>, FALSE)
        ELSE Eff([q1 EXCEPT !.checkKey = Z85Encode(env.keyBuffer),
                            !.pc = "lookupKey"])

\* handleCopy 475-480 and mask-smith.copy 504-506, after the loop.
HandleCopyFinish(q) ==
    IF q.hasEncryptedContent /\ q.decryptedText # q.text
    THEN [q |-> Done(Show([q EXCEPT !.ok = TRUE, !.result = q.decryptedText,
                                    !.clips = Append(@, q.decryptedText)],
                          "ui.copiedToClipboard")),
          doc |-> doc,
          clipboard |-> q.decryptedText,
          issued |-> issued]
    ELSE [q |-> Done([q EXCEPT !.defaultCopy = TRUE]),
          doc |-> doc,
          clipboard |-> q.text,
          issued |-> issued]

\* handleCopy 464-468: the loop takes its next match and awaits decryptText,
\* or ends.
HandleCopyStep(q) ==
    IF q.mi > Len(q.matches)
    THEN HandleCopyFinish(q)
    ELSE DecryptPrologue([q EXCEPT !.hasEncryptedContent = TRUE],
                         q.matches[q.mi].group)

\* encryptText 230-248 with the PasswordData resolved.
EncryptWith(q, pd) ==
    DecryptPrologue([q EXCEPT !.encKey = pd.valueBuffer,
                              !.aead = Append(@, "encrypt")],
                    TokenFor(q.text, pd.keyBuffer, pd.valueBuffer))

\* inputPassword has returned pd (NoPd for null) to encryptText 228-229 or to
\* decryptText 290-291.
InputReturn(q, pd) ==
    LET q0 == [q EXCEPT !.defaultKey = <<>>, !.lastPd = NoPd,
                        !.password = <<>>, !.found = NoPd]
    IN  IF q.checkKey = <<>>
        THEN IF pd = NoPd THEN MaskReturn(q0, <<>>, FALSE) ELSE EncryptWith(q0, pd)
        ELSE IF pd = NoPd THEN DecryptReturn(q0, <<>>, FALSE) ELSE DecryptWith(q0, pd)

\* inputPassword 212-216 has thrown SET_PASSWORD_FAILED; the catch of
\* encryptText 260-270 or of decryptText 312-324 shows its message.
InputThrow(q) ==
    IF q.checkKey = <<>>
    THEN MaskReturn(Show(q, "errors.setPasswordFailed"), <<>>, FALSE)
    ELSE DecryptReturn(Show(q, "errors.setPasswordFailed"), <<>>, FALSE)

\* readPassword 112-116 has thrown READ_PASSWORD_FAILED at decryptText 290.
LookupThrow(q) ==
    DecryptReturn(Show(q, "errors.getPasswordFailed"), <<>>, FALSE)

Apply(r, e) ==
    /\ req' = [req EXCEPT ![r] = e.q]
    /\ doc' = e.doc
    /\ clipboard' = e.clipboard
    /\ issued' = e.issued
    /\ UNCHANGED codecVars

----------------------------------------------------------------------------
(* Actions: one per await of a request                                     *)

Prompt(q, kind, answer) == [q EXCEPT !.prompts = Append(@, <<kind, answer>>)]
Called(q) == [q EXCEPT !.secrets = @ + 1]
Wrote(q, key, value) == [Called(q) EXCEPT !.writes = Append(@, <<key, value>>)]

\* maskSelection 392: selection.isEmpty.
SelectionIsEmpty(sel) == sel[1] = sel[2]

\* encryptText 222: !text || text.length === 0.
TextIsEmpty(text) == Len(text) = 0

KeyBase64Of(password) == Z85Encode(KeyBufferOf(ValueBufferOf(password)))

\* A mask command without the tests for an empty selection and an empty
\* text.
StartMaskUnguarded(r, sel) ==
    /\ req[r].pc \in {"idle", "done"}
    /\ nStarted < MaxRequests
    /\ sel[2] <= Len(doc)
    /\ Apply(r, Eff([NewReq("mask") EXCEPT !.sel = sel,
                                    !.text = SubSeq(doc, sel[1] + 1, sel[2]),
                                    !.pc = "getDefault"]))
    /\ nStarted' = nStarted + 1
    /\ UNCHANGED <<store, currentKey, locale>>

\* maskSelection 379-410 and encryptText 221-228, up to the first await of
\* inputPassword(null).  The active document is of a supported language and
\* the selection is at most 10000 characters long.
StartMask(r, sel) ==
    /\ req[r].pc \in {"idle", "done"}
    /\ nStarted < MaxRequests
    /\ sel[2] <= Len(doc)
    /\ LET q == [NewReq("mask") EXCEPT !.sel = sel,
                                       !.text = SubSeq(doc, sel[1] + 1, sel[2])]
       IN  IF SelectionIsEmpty(sel)
           THEN Apply(r, Eff(Done(Show(q, "errors.selectText"))))
           ELSE IF TextIsEmpty(q.text)
           THEN Apply(r, Eff(Done(Show(q, "errors.emptyText"))))
           ELSE Apply(r, Eff([q EXCEPT !.pc = "getDefault"]))
    /\ nStarted' = nStarted + 1
    /\ UNCHANGED <<store, currentKey, locale>>

\* copyDecodedContent 424-425 and decryptText 274-290.
StartCopy(r, encoded) ==
    /\ req[r].pc \in {"idle", "done"}
    /\ nStarted < MaxRequests
    /\ Apply(r, DecryptPrologue(NewReq("copy"), encoded))
    /\ nStarted' = nStarted + 1
    /\ UNCHANGED <<store, currentKey, locale>>

\* mask-smith.copy 500-504 and handleCopy 459-468 with a selection that is
\* not empty, up to the first await.
StartSmartCopy(r, text) ==
    /\ req[r].pc \in {"idle", "done"}
    /\ nStarted < MaxRequests
    /\ Apply(r, HandleCopyStep([NewReq("smartcopy") EXCEPT
                                   !.text = text,
                                   !.decryptedText = text,
                                   !.matches = MatchAll(text),
                                   !.mi = 1]))
    /\ nStarted' = nStarted + 1
    /\ UNCHANGED <<store, currentKey, locale>>

\* handleCopy 468: the await of decryptText resumes the loop.
ResumeHandleCopy(r) ==
    /\ req[r].pc = "nextMatch"
    /\ Apply(r, HandleCopyStep(req[r]))
    /\ UNCHANGED <<store, currentKey, locale, nStarted>>

\* An inputPassword that never offers the last password.
GetDefaultSkipsReuse(r) ==
    /\ req[r].pc = "getDefault"
    /\ Apply(r, Eff([Called(req[r]) EXCEPT !.defaultKey = SecretsGet(DEFAULT_KEY),
                                           !.pc = "enterPassword"]))
    /\ UNCHANGED <<store, currentKey, locale, nStarted>>

\* inputPassword 125-126.
GetDefault(r) ==
    /\ req[r].pc = "getDefault"
    /\ LET defaultKey == SecretsGet(DEFAULT_KEY)
       IN  Apply(r, Eff([Called(req[r]) EXCEPT
                   !.defaultKey = defaultKey,
                   !.pc = IF defaultKey # <<>> THEN "readLast" ELSE "enterPassword"]))
    /\ UNCHANGED <<store, currentKey, locale, nStarted>>

\* inputPassword 127-128: readPassword(defaultKey).
ReadLast(r) ==
    /\ req[r].pc = "readLast"
    /\ LET lastPasswordData == ReadPassword(req[r].defaultKey)
       IN  IF lastPasswordData # NoPd
           THEN Apply(r, Eff([Called(req[r]) EXCEPT
                       !.lastPd = lastPasswordData,
                       !.pc = "reuseDialog"]))
           ELSE Apply(r, Eff([Called(req[r]) EXCEPT !.pc = "enterPassword"]))
    /\ UNCHANGED <<store, currentKey, locale, nStarted>>

\* An inputPassword whose reuse dialog, when dismissed, goes on to the
\* password prompt.
ReuseDialogNoAbort(r, answer) ==
    /\ req[r].pc = "reuseDialog"
    /\ LET q == Prompt(req[r], "reuse", answer)
           title == IF answer = "confirm" THEN T("prompts.confirm")
                                          ELSE T("prompts.cancel")
       IN  IF answer # "dismiss" /\ title = T("prompts.confirm")
           THEN Apply(r, InputReturn(q, q.lastPd))
           ELSE Apply(r, Eff([q EXCEPT !.pc = "enterPassword"]))
    /\ UNCHANGED <<store, currentKey, locale, nStarted>>

\* inputPassword 129-141: the modal dialog with the items titled
\* t('prompts.confirm') and t('prompts.cancel'); answer is the item the user
\* picks, or "dismiss".
ReuseDialog(r, answer) ==
    /\ req[r].pc = "reuseDialog"
    /\ LET q == Prompt(req[r], "reuse", answer)
           title == IF answer = "confirm" THEN T("prompts.confirm")
                                          ELSE T("prompts.cancel")
       IN  IF answer # "dismiss" /\ title = T("prompts.confirm")
           THEN Apply(r, InputReturn(q, q.lastPd))
           ELSE IF answer = "dismiss"
           THEN Apply(r, InputReturn(q, NoPd))
           ELSE Apply(r, Eff([q EXCEPT !.pc = "enterPassword"]))
    /\ UNCHANGED <<store, currentKey, locale, nStarted>>

\* inputPassword 145-169: the password prompt, the derivation and the check
\* against checkKeyBase64.
EnterPassword(r, password) ==
    /\ req[r].pc = "enterPassword"
    /\ LET q == Prompt(req[r], "password", password)
       IN  IF NoPassword(password)
           THEN Apply(r, InputReturn(Show(q, "errors.noPassword"), NoPd))
           ELSE IF KeyMismatch(q.checkKey, KeyBase64Of(password))
           THEN Apply(r, InputReturn(Show(q, "errors.passwordKeyMismatch"), NoPd))
           ELSE Apply(r, Eff([q EXCEPT !.password = password, !.pc = "readTyped"]))
    /\ UNCHANGED <<store, currentKey, locale, nStarted>>

\* inputPassword 172-185: readPassword(keyBase64) and the comparison of the
\* stored key material with the derived one.
ReadTyped(r) ==
    /\ req[r].pc = "readTyped"
    /\ LET keyBase64 == KeyBase64Of(req[r].password)
           q == [Called(req[r]) EXCEPT !.known =
                    IF SecretsGet(keyBase64)
                       = Z85Encode(ValueBufferOf(req[r].password))
                    THEN "yes" ELSE "no"]
           passwordData == ReadPassword(keyBase64)
       IN  IF PasswordIsKnown(passwordData, ValueBufferOf(q.password))
           THEN IF q.checkKey = <<>>
                THEN Apply(r, Eff([q EXCEPT !.found = passwordData,
                                            !.pc = "storeDefaultKnown"]))
                ELSE Apply(r, InputReturn(q, passwordData))
           ELSE IF q.checkKey = <<>>
           THEN Apply(r, Eff([q EXCEPT !.pc = "confirmPassword"]))
           ELSE Apply(r, Eff([q EXCEPT !.pc = "storeRecord"]))
    /\ UNCHANGED <<store, currentKey, locale, nStarted>>

\* inputPassword 174-181: the typed password is known.
StoreDefaultKnown(r) ==
    /\ req[r].pc = "storeDefaultKnown"
    /\ LET keyBase64 == KeyBase64Of(req[r].password)
       IN  /\ store' = SecretsStore(DEFAULT_KEY, keyBase64)
           /\ Apply(r, InputReturn(Wrote(req[r], DEFAULT_KEY, keyBase64),
                                   req[r].found))
    /\ UNCHANGED <<currentKey, locale, nStarted>>

\* inputPassword 186-197: the confirmation prompt.
ConfirmPassword(r, confirmPassword) ==
    /\ req[r].pc = "confirmPassword"
    /\ LET q == Prompt(req[r], "confirm", confirmPassword)
       IN  IF ConfirmationMismatch(q.password, confirmPassword)
           THEN Apply(r, InputReturn(Show(q, "errors.passwordNotMatch"), NoPd))
           ELSE Apply(r, Eff([q EXCEPT !.pc = "storeDefaultNew"]))
    /\ UNCHANGED <<store, currentKey, locale, nStarted>>

\* inputPassword 199-200.
StoreDefaultNew(r) ==
    /\ req[r].pc = "storeDefaultNew"
    /\ LET keyBase64 == KeyBase64Of(req[r].password)
       IN  /\ store' = SecretsStore(DEFAULT_KEY, keyBase64)
           /\ Apply(r, Eff([Wrote(req[r], DEFAULT_KEY, keyBase64)
                               EXCEPT !.pc = "storeRecord"]))
    /\ UNCHANGED <<currentKey, locale, nStarted>>

\* An inputPassword that returns a new password's data without storing its
\* record.
StoreRecordSkipped(r) ==
    /\ req[r].pc = "storeRecord"
    /\ LET valueBuffer == ValueBufferOf(req[r].password)
           keyBuffer == KeyBufferOf(valueBuffer)
           keyBase64 == Z85Encode(keyBuffer)
       IN  /\ currentKey' = keyBase64
           /\ Apply(r, InputReturn(Called(req[r]),
                                   [keyBase64 |-> keyBase64,
                                    keyBuffer |-> keyBuffer,
                                    valueBuffer |-> valueBuffer]))
    /\ UNCHANGED <<store, locale, nStarted>>

\* An inputPassword that stores the password itself as the record's value.
StoreRecordRawPassword(r) ==
    /\ req[r].pc = "storeRecord"
    /\ LET valueBuffer == ValueBufferOf(req[r].password)
           keyBuffer == KeyBufferOf(valueBuffer)
           keyBase64 == Z85Encode(keyBuffer)
       IN  /\ store' = SecretsStore(keyBase64, req[r].password)
           /\ currentKey' = keyBase64
           /\ Apply(r, InputReturn(Wrote(req[r], keyBase64, req[r].password),
                                   [keyBase64 |-> keyBase64,
                                    keyBuffer |-> keyBuffer,
                                    valueBuffer |-> valueBuffer]))
    /\ UNCHANGED <<locale, nStarted>>

\* inputPassword 203-211.
StoreRecord(r) ==
    /\ req[r].pc = "storeRecord"
    /\ LET valueBuffer == ValueBufferOf(req[r].password)
           keyBuffer == KeyBufferOf(valueBuffer)
           keyBase64 == Z85Encode(keyBuffer)
           valueBase64 == Z85Encode(valueBuffer)
       IN  /\ store' = SecretsStore(keyBase64, valueBase64)
           /\ currentKey' = keyBase64
           /\ Apply(r, InputReturn(Wrote(req[r], keyBase64, valueBase64),
                                   [keyBase64 |-> keyBase64,
                                    keyBuffer |-> keyBuffer,
                                    valueBuffer |-> valueBuffer]))
    /\ UNCHANGED <<locale, nStarted>>

\* decryptText 290: readPassword(keyBase64) || inputPassword(keyBase64).
LookupKey(r) ==
    /\ req[r].pc = "lookupKey"
    /\ LET q == [Called(req[r]) EXCEPT
                    !.hadRecord = (req[r].checkKey \in DOMAIN store)]
           passwordData == ReadPassword(q.checkKey)
       IN  IF passwordData # NoPd
           THEN Apply(r, DecryptWith(q, passwordData))
           ELSE Apply(r, Eff([q EXCEPT !.pc = "enterPassword"]))
    /\ UNCHANGED <<store, currentKey, locale, nStarted>>

\* A secret-store call inside inputPassword rejects.
InputSecretsFail(r) ==
    /\ req[r].pc \in {"getDefault", "readLast", "readTyped",
                      "storeDefaultKnown", "storeDefaultNew", "storeRecord"}
    /\ Apply(r, InputThrow(Called(req[r])))
    /\ UNCHANGED <<store, currentKey, locale, nStarted>>

\* The secret-store call of decryptText's readPassword rejects.
LookupSecretsFail(r) ==
    /\ req[r].pc = "lookupKey"
    /\ Apply(r, LookupThrow(Called(req[r])))
    /\ UNCHANGED <<store, currentKey, locale, nStarted>>

CodecOff ==
    /\ cIn = <<>>
    /\ cStr = <<>>
    /\ cOut = <<>>
    /\ cpc = "off"

\* The state after activate(): nothing stored on a fresh installation.
MainInit ==
    /\ store = <<>>
    /\ doc = InitialDoc
    /\ clipboard = <<>>
    /\ currentKey = <<>>
    /\ req = [r \in Reqs |-> IdleReq]
    /\ nStarted = 0
    /\ issued = {}

Init ==
    /\ MainInit
    /\ locale \in Locales
    /\ CodecOff

\* The commands are issued one after another: request 1 is the only one in
\* flight.
Next ==
    \E r \in {1} :
        \/ \E sel \in Selections : StartMask(r, sel)
        \/ \E encoded \in DecryptInputs : StartCopy(r, encoded)
        \/ GetDefault(r)
        \/ ReadLast(r)
        \/ \E answer \in {"confirm", "cancel", "dismiss"} : ReuseDialog(r, answer)
        \/ \E password \in Entries : EnterPassword(r, password)
        \/ ReadTyped(r)
        \/ StoreDefaultKnown(r)
        \/ \E confirmPassword \in Entries : ConfirmPassword(r, confirmPassword)
        \/ StoreDefaultNew(r)
        \/ StoreRecord(r)
        \/ LookupKey(r)
        \/ InputSecretsFail(r)
        \/ LookupSecretsFail(r)

Spec == Init /\ [][Next]_vars

----------------------------------------------------------------------------
(* Requests in flight together.  Each of the two slots runs one request;   *)
(* the steps of the two interleave at their awaits.                        *)

\* The secret store a session that confirmed a new password leaves behind.
StoreAfter(password) ==
    [k \in {DEFAULT_KEY, KeyBase64Of(password)} |->
        IF k = DEFAULT_KEY THEN KeyBase64Of(password)
                           ELSE Z85Encode(ValueBufferOf(password))]

\* Two selections that overlap: "h" and the whole document.
RaceSelections == {<<0, 1>>, <<0, 2>>}

\* The token a copy command is given while a mask command is in flight.
RaceTokens == {TokenOf(<<104>>, <<97>>)}

\* After activate(): the secret store is empty, or holds what an earlier
\* session stored for the password "a".
RaceInit ==
    /\ store \in {<<>>, StoreAfter(<<97>>)}
    /\ doc = InitialDoc
    /\ clipboard = <<>>
    /\ currentKey = <<>>
    /\ req = [r \in Reqs |-> IdleReq]
    /\ nStarted = 0
    /\ issued = {}
    /\ locale = "en"
    /\ CodecOff

RaceStartMask(r, sel) == req[r].pc = "idle" /\ StartMask(r, sel)

RaceStartCopy(r, encoded) == req[r].pc = "idle" /\ StartCopy(r, encoded)

NextRace ==
    \E r \in Reqs :
        \/ \E sel \in RaceSelections : RaceStartMask(r, sel)
        \/ \E encoded \in RaceTokens : RaceStartCopy(r, encoded)
        \/ GetDefault(r)
        \/ ReadLast(r)
        \/ \E answer \in {"confirm", "cancel", "dismiss"} : ReuseDialog(r, answer)
        \/ \E password \in Entries : EnterPassword(r, password)
        \/ ReadTyped(r)
        \/ StoreDefaultKnown(r)
        \/ \E confirmPassword \in Entries : ConfirmPassword(r, confirmPassword)
        \/ StoreDefaultNew(r)
        \/ StoreRecord(r)
        \/ LookupKey(r)

SpecRace == RaceInit /\ [][NextRace]_vars

\* The copy command alone, issued time after time: handleCopy and the
\* decryptText calls it awaits.  inputPassword is entered with a key to
\* check, so it neither offers the last password nor asks for a
\* confirmation, and it leaves the pointer alone.
NextSmartCopy ==
    \E r \in {1} :
        \/ \E text \in SmartCopyInputs : StartSmartCopy(r, text)
        \/ ResumeHandleCopy(r)
        \/ LookupKey(r)
        \/ \E password \in Entries : EnterPassword(r, password)
        \/ ReadTyped(r)
        \/ StoreRecord(r)
        \/ InputSecretsFail(r)
        \/ LookupSecretsFail(r)

SpecSmartCopy == Init /\ [][NextSmartCopy]_vars

----------------------------------------------------------------------------
(* Codec harness: a byte buffer is encoded, the string is decoded.         *)

MaxLen == 5

\* Byte values at the edges of the radix conversion.
SampleBytes == {0, 1, 84, 85, 255}

CodecInit ==
    /\ MainInit
    /\ locale = "en"
    /\ cIn \in SeqsUpTo(SampleBytes, MaxLen)
    /\ cStr = <<>>
    /\ cOut = <<>>
    /\ cpc = "in"

CodecEncode ==
    /\ cpc = "in"
    /\ cStr' = Z85Encode(cIn)
    /\ cpc' = "encoded"
    /\ UNCHANGED <<cIn, cOut, mainVars>>

CodecDecode ==
    /\ cpc = "encoded"
    /\ cOut' = Z85Decode(cStr)
    /\ cpc' = "decoded"
    /\ UNCHANGED <<cIn, cStr, mainVars>>

CodecNext == CodecEncode \/ CodecDecode

SpecCodec == CodecInit /\ [][CodecNext]_vars

----------------------------------------------------------------------------
(* Decoder harness: a string that no encoder produced is decoded.          *)

\* '0' and '#', the digits 0 and 84; '~', which the decode table maps to 0;
\* U+00E9, which lies beyond the decode table.
SampleChars == {48, 35, 126, 233}

DecodeInit ==
    /\ MainInit
    /\ locale = "en"
    /\ cIn = <<>>
    /\ cStr \in SeqsUpTo(SampleChars, MaxLen)
    /\ cOut = <<>>
    /\ cpc = "encoded"

SpecDecode == DecodeInit /\ [][CodecDecode]_vars

----------------------------------------------------------------------------
(* Envelope harness: four fields are serialized as encryptText does and    *)
(* the token is sliced as decryptText does.                                *)

\* IV fields: all zero, and bytes that differ from one another.
EnvelopeIvs == {[i \in 1..IV_SIZE |-> 0], [i \in 1..IV_SIZE |-> 256 - i]}

\* Key identifier fields.
EnvelopeKeys == {[i \in 1..KEY_SIZE |-> 0], [i \in 1..KEY_SIZE |-> 85 + i]}

\* Version bytes.
EnvelopeVersions == {0, ENCRYPTION_VERSION, 255}

\* cIn holds <<iv, keyId, <<version>>, ciphertext>>; the ciphertext is of
\* every length from 0 to MaxLen.
EnvelopeInit ==
    /\ MainInit
    /\ locale = "en"
    /\ cIn \in {<<iv, keyId, <<version>>, cipherText>> :
                  iv \in EnvelopeIvs, keyId \in EnvelopeKeys,
                  version \in EnvelopeVersions,
                  cipherText \in SeqsUpTo({0, 255}, MaxLen)}
    /\ cStr = <<>>
    /\ cOut = <<>>
    /\ cpc = "fields"

EnvelopeSerialize ==
    /\ cpc = "fields"
    /\ cStr' = Serialize(cIn[1], cIn[2], cIn[3][1], cIn[4])
    /\ cpc' = "serialized"
    /\ UNCHANGED <<cIn, cOut, mainVars>>

EnvelopeParse ==
    /\ cpc = "serialized"
    /\ LET env == EnvelopeOf(cStr)
       IN  cOut' = <<env.hashBuffer, env.keyBuffer, env.versionBuffer,
                     env.cipherText>>
    /\ cpc' = "parsed"
    /\ UNCHANGED <<cIn, cStr, mainVars>>

EnvelopeNext == EnvelopeSerialize \/ EnvelopeParse

SpecEnvelope == EnvelopeInit /\ [][EnvelopeNext]_vars

----------------------------------------------------------------------------
(* Properties                                                              *)

\* The answers given to the prompts of one kind during a request.
PromptAnswers(q, kind) ==
    {q.prompts[i][2] : i \in {j \in 1..Len(q.prompts) : q.prompts[j][1] = kind}}

\* The record a password is stored as: identifier and key material, encoded.
RecordKey(password) == KeyBase64Of(password)
RecordValue(password) == Z85Encode(ValueBufferOf(password))

\* C1: for every byte sequence X, Z85.decode(Z85.encode(X)) has the length
\* and the bytes of X.
C1_RoundTrip == cpc = "decoded" => (Len(cOut) = Len(cIn) /\ cOut = cIn)

\* A buffer whose length is no multiple of 4 has been encoded and decoded.
C1_Witness ==
    /\ cpc = "decoded"
    /\ cIn = <<255, 0, 85, 84, 1>>
    /\ Len(cStr) = 7

\* C2: a token that encryptText built for a text P under key material K, when
\* decryptText has decrypted it with K, yields exactly P.  Every token a mask
\* request issues is such a token.
C2_EncryptDecryptRoundTrip ==
    /\ \A i \in issued :
          \E W \in Passwords :
              i.key = ValueBufferOf(W) /\ i.token = TokenOf(i.text, W)
    /\ \A r \in Reqs :
          LET q == req[r]
          IN  (q.op = "copy" /\ q.pc = "done" /\ q.decKey # <<>>) =>
                 /\ \A i \in issued :
                       (q.token = i.token /\ q.decKey = i.key) =>
                          (q.ok /\ q.result = i.text)
                 /\ \A W \in Passwords :
                       (q.token = TokenOf(<<104>>, W)
                        /\ q.decKey = ValueBufferOf(W)) =>
                          (q.ok /\ q.result = <<104>> /\ clipboard = <<104>>)

\* A token a mask request issued has been decrypted by a later copy request.
C2_Witness ==
    \E r \in Reqs : \E i \in issued :
        /\ req[r].op = "copy" /\ req[r].pc = "done"
        /\ req[r].token = i.token /\ req[r].decKey = i.key
        /\ req[r].ok /\ req[r].result = i.text /\ i.text # <<>>

\* C3: a mask request returns a token and writes it into the document only
\* after the verifying decryptText returned exactly the text that was
\* encrypted; when the verification returns anything else the request fails,
\* returns no token and leaves the document alone.
C3_SelfVerified ==
    \A r \in Reqs :
        LET q == req[r]
            verifiedOk == q.verified.ok /\ q.verified.text = q.text
        IN  q.op = "mask" =>
               /\ (q.ok \/ q.edits # <<>> \/ q.result # <<>>) =>
                     /\ verifiedOk
                     /\ q.result = TokenFor(q.text, KeyBufferOf(q.encKey), q.encKey)
                     /\ q.edits = <<MaskedText(q.result)>>
               /\ (q.pc = "done" /\ ~verifiedOk) =>
                     (~q.ok /\ q.result = <<>> /\ q.edits = <<>>)
               /\ (q.pc = "done" /\ "decrypt" \in {q.aead[i] : i \in 1..Len(q.aead)}
                   /\ ~verifiedOk) => "errors.encryptionFailed" \in q.msgs

\* A mask request whose verification decrypted to another text than the
\* selected one has failed.
C3_Witness ==
    \E r \in Reqs :
        /\ req[r].op = "mask" /\ req[r].pc = "done"
        /\ req[r].aead = <<"encrypt", "decrypt">>
        /\ req[r].verified.ok /\ req[r].verified.text # req[r].text
        /\ ~req[r].ok /\ req[r].edits = <<>>

\* C4: decryptText returns a text only when the AEAD decryption of the
\* token's ciphertext succeeded and the hash of the decrypted bytes equals
\* the token's IV field, and then it returns those bytes decoded; a token with
\* one bit of its ciphertext region flipped is never decrypted to a text.
C4_TamperDetected ==
    \A r \in Reqs :
        LET q == req[r]
            env == EnvelopeOf(q.token)
            dec == AesGcmDecrypt(q.decKey, env.hashBuffer, env.cipherText)
        IN  /\ (q.op = "copy" /\ q.ok) =>
                  /\ dec.ok
                  /\ HashBufferOf(dec.data) = env.hashBuffer
                  /\ q.result = Utf8Decode(dec.data)
            /\ (q.op = "mask" /\ q.verified.ok) =>
                  /\ dec.ok
                  /\ HashBufferOf(dec.data) = env.hashBuffer
                  /\ q.verified.text = Utf8Decode(dec.data)
            /\ (q.op = "copy" /\ q.pc = "done" /\ q.token \in TamperedTokens) =>
                  (~q.ok /\ q.result = <<>>)

\* The AEAD decryption of a tampered token has been attempted with the right
\* key material and the request has failed.
C4_Witness ==
    \E r \in Reqs :
        /\ req[r].op = "copy" /\ req[r].pc = "done"
        /\ req[r].token \in TamperedTokens
        /\ req[r].aead = <<"decrypt">>
        /\ req[r].decKey = ValueBufferOf(<<97>>)
        /\ ~req[r].ok
        /\ "errors.wrongPassword" \in req[r].msgs

\* C5, as the specification states it: an encrypt request on the empty
\* string succeeds with a token.
C5_Original ==
    \A r \in Reqs :
        (req[r].op = "mask" /\ req[r].pc = "done" /\ req[r].text = <<>>) =>
            req[r].ok

\* C5: an encrypt request on the empty string is rejected at once with the
\* warning errors.selectText: no password is asked for, the secret store is not
\* called, no AEAD call is made, no token is returned and the document is not
\* edited.
C5_EmptyRejected ==
    \A r \in Reqs :
        LET q == req[r]
        IN  (q.op = "mask" /\ q.text = <<>>) =>
               /\ q.pc = "done"
               /\ ~q.ok /\ q.result = <<>>
               /\ q.msgs = {"errors.selectText"}
               /\ q.prompts = <<>> /\ q.secrets = 0
               /\ q.aead = <<>> /\ q.edits = <<>>

\* A mask request on an empty selection has been rejected.
C5_Witness ==
    \E r \in Reqs :
        /\ req[r].op = "mask" /\ req[r].pc = "done"
        /\ req[r].text = <<>> /\ req[r].sel[1] = req[r].sel[2]
        /\ ~req[r].ok /\ "errors.selectText" \in req[r].msgs

\* C6: a token whose version byte is not ENCRYPTION_VERSION is rejected with
\* errors.unsupportedVersion before any key lookup, prompt or AEAD call,
\* whatever its other bytes are.
C6_VersionGate ==
    \A r \in Reqs :
        LET q == req[r]
            b == Z85Decode(q.token)
        IN  (q.op = "copy" /\ Len(b) >= IV_SIZE + KEY_SIZE + 1
             /\ b[IV_SIZE + KEY_SIZE + 1] # ENCRYPTION_VERSION) =>
               /\ q.pc = "done" /\ ~q.ok /\ q.result = <<>>
               /\ "errors.unsupportedVersion" \in q.msgs
               /\ q.secrets = 0 /\ q.prompts = <<>> /\ q.aead = <<>>

\* A copy request for a token of another version has been rejected.
C6_Witness ==
    \E r \in Reqs :
        /\ req[r].op = "copy" /\ req[r].pc = "done"
        /\ req[r].token \in OtherVersionTokens
        /\ DOMAIN store # {}
        /\ "errors.unsupportedVersion" \in req[r].msgs

\* C7: when the secret store holds a record under the token's key
\* identifier, decryptText decrypts with that record's key material and shows
\* neither the password prompt nor the reuse dialog.
C7_KnownKeyNoPrompt ==
    \A r \in Reqs :
        LET q == req[r]
            keyBase64 == Z85Encode(EnvelopeOf(q.token).keyBuffer)
        IN  (q.op = "copy" /\ q.hadRecord) =>
               /\ q.pc = "done"
               /\ q.prompts = <<>>
               /\ q.aead = <<"decrypt">>
               /\ q.decKey = Z85Decode(SecretsGet(keyBase64))
               /\ q.writes = <<>>

\* A copy request has decrypted with a stored record.
C7_Witness ==
    \E r \in Reqs :
        /\ req[r].op = "copy" /\ req[r].pc = "done"
        /\ req[r].hadRecord /\ req[r].ok
        /\ req[r].prompts = <<>>
        /\ clipboard = <<104>>

\* C8: when decryptText has no record for the token and the password typed
\* derives another key identifier than the token's, the request fails with
\* errors.passwordKeyMismatch, no AEAD call is made and nothing is stored.
C8_KeyMismatch ==
    \A r \in Reqs :
        LET q == req[r]
        IN  (/\ q.op = "copy" /\ ~q.hadRecord
             /\ \E pw \in PromptAnswers(q, "password") :
                   /\ pw # <<>>
                   /\ KeyBase64Of(pw) # Z85Encode(EnvelopeOf(q.token).keyBuffer)) =>
               /\ q.pc = "done" /\ ~q.ok /\ q.result = <<>>
               /\ "errors.passwordKeyMismatch" \in q.msgs
               /\ q.aead = <<>> /\ q.writes = <<>>
               /\ Len(q.prompts) = 1

\* A copy request has been answered with a password of another identifier.
C8_Witness ==
    \E r \in Reqs :
        /\ req[r].op = "copy" /\ req[r].pc = "done"
        /\ req[r].prompts = <<<<"password", <<99>>>>>>
        /\ req[r].token = TokenOf(<<104>>, <<97>>)
        /\ "errors.passwordKeyMismatch" \in req[r].msgs

\* C9: when an encrypt request is given a password whose record is not
\* stored, nothing is stored and nothing is encrypted before a confirmation
\* equal to the password has been entered; a differing confirmation fails the
\* request with errors.passwordNotMatch and stores nothing; after an equal
\* one the default pointer and then the record are stored.
C9_NewPasswordConfirmed ==
    \A r \in Reqs :
        LET q == req[r]
            conf == PromptAnswers(q, "confirm")
        IN  (q.op = "mask" /\ q.known = "no") =>
               \A pw \in PromptAnswers(q, "password") :
                  /\ (q.writes # <<>> \/ q.aead # <<>>
                      \/ q.pc \in {"storeDefaultNew", "storeRecord"}) =>
                        conf = {pw}
                  /\ (conf # {} /\ conf # {pw}) =>
                        /\ q.pc = "done" /\ ~q.ok
                        /\ "errors.passwordNotMatch" \in q.msgs
                        /\ q.writes = <<>> /\ q.aead = <<>>
                  /\ \A i \in 1..Len(q.writes) :
                        q.writes[i] = IF i = 1
                                      THEN <<DEFAULT_KEY, RecordKey(pw)>>
                                      ELSE <<RecordKey(pw), RecordValue(pw)>>
                  /\ Len(q.writes) <= 2
                  /\ q.aead # <<>> =>
                        /\ Len(q.writes) = 2
                        /\ q.encKey = ValueBufferOf(pw)
                  /\ (q.pc = "done" /\ conf = {pw}
                      /\ "errors.setPasswordFailed" \notin q.msgs) =>
                        /\ Len(q.writes) = 2
                        /\ SecretsGet(DEFAULT_KEY) = RecordKey(pw)
                        /\ SecretsGet(RecordKey(pw)) = RecordValue(pw)

\* A new password has been confirmed, stored and used to mask the selection.
C9_Witness ==
    \E r \in Reqs :
        /\ req[r].op = "mask" /\ req[r].pc = "done" /\ req[r].known = "no"
        /\ req[r].prompts = <<<<"password", <<97>>>>, <<"confirm", <<97>>>>>>
        /\ Len(req[r].writes) = 2
        /\ req[r].ok

\* C10: when an encrypt request is given a password whose record is stored,
\* no confirmation is asked for and the record is not written again; unless
\* the secret store fails, the default pointer is set to that record's key
\* identifier and the stored key material is what encrypts.
C10_KnownPasswordReused ==
    \A r \in Reqs :
        LET q == req[r]
        IN  (q.op = "mask" /\ q.known = "yes") =>
               \A pw \in PromptAnswers(q, "password") :
                  /\ PromptAnswers(q, "confirm") = {}
                  /\ \A i \in 1..Len(q.writes) :
                        q.writes[i] = <<DEFAULT_KEY, RecordKey(pw)>>
                  /\ Len(q.writes) <= 1
                  /\ SecretsGet(RecordKey(pw)) = RecordValue(pw)
                  /\ q.aead # <<>> =>
                        /\ Len(q.writes) = 1
                        /\ q.encKey = Z85Decode(SecretsGet(RecordKey(pw)))
                  /\ (q.pc = "done" /\ "errors.setPasswordFailed" \notin q.msgs) =>
                        /\ Len(q.writes) = 1
                        /\ SecretsGet(DEFAULT_KEY) = RecordKey(pw)
                        /\ q.aead # <<>>

\* A stored password has been typed again and used without a confirmation,
\* after the pointer had moved to another record.
C10_Witness ==
    \E r \in Reqs :
        /\ req[r].op = "mask" /\ req[r].pc = "done" /\ req[r].known = "yes"
        /\ req[r].prompts = <<<<"reuse", "cancel">>, <<"password", <<97>>>>>>
        /\ req[r].writes = <<<<DEFAULT_KEY, RecordKey(<<97>>)>>>>
        /\ req[r].ok

\* C11, as the specification states it: in an encrypt request an explicit
\* "no" to the reuse dialog, like a dismissal, ends the request: no further
\* prompt, no token, no edit of the document.
C11_Original ==
    \A r \in Reqs :
        LET q == req[r]
        IN  (q.op = "mask" /\ q.prompts # <<>>
             /\ q.prompts[1][1] = "reuse"
             /\ q.prompts[1][2] \in {"cancel", "dismiss"}) =>
               /\ q.pc = "done"
               /\ Len(q.prompts) = 1
               /\ ~q.ok /\ q.edits = <<>>

\* C11: in an encrypt request, dismissing the reuse dialog ends the request:
\* no further prompt, no store write, no AEAD call, no token and the document
\* as it was.  An explicit "no", when the titles of the two items differ, does
\* not end it: the password prompt follows.
C11_DismissAborts ==
    \A r \in Reqs :
        LET q == req[r]
        IN  (q.op = "mask" /\ q.prompts # <<>> /\ q.prompts[1][1] = "reuse") =>
               /\ q.prompts[1][2] = "dismiss" =>
                     /\ q.pc = "done"
                     /\ Len(q.prompts) = 1
                     /\ ~q.ok /\ q.result = <<>> /\ q.edits = <<>>
                     /\ q.writes = <<>> /\ q.aead = <<>>
                     /\ doc = q.doc0 /\ store = q.store0
               /\ (q.prompts[1][2] = "cancel"
                   /\ T("prompts.cancel") # T("prompts.confirm")) =>
                     /\ q.aead # <<>> => Len(q.prompts) >= 2
                     /\ IF Len(q.prompts) = 1
                        THEN q.pc = "enterPassword"
                        ELSE q.prompts[2][1] = "password"

\* The reuse dialog of a mask request has been dismissed.
C11_Witness ==
    \E r \in Reqs :
        /\ req[r].op = "mask" /\ req[r].pc = "done"
        /\ req[r].prompts = <<<<"reuse", "dismiss">>>>
        /\ ~req[r].ok /\ req[r].msgs = {}

\* The default pointer of a store names a record of that store.
PointerResolves(s) ==
    /\ DEFAULT_KEY \in DOMAIN s
    /\ s[DEFAULT_KEY] \in DOMAIN s

\* C12: an encrypt request shows the reuse dialog exactly when the default
\* pointer is set and names a stored record, and otherwise goes to the
\* password prompt; when the user picks the confirm item the request
\* encrypts with that record's key material under that record's identifier,
\* shows no other prompt and writes nothing to the secret store.
C12_ReuseOffer ==
    \A r \in Reqs :
        LET q == req[r]
            offered == q.prompts # <<>> /\ q.prompts[1][1] = "reuse"
        IN  q.op = "mask" =>
               /\ q.pc = "reuseDialog" => PointerResolves(q.store0)
               /\ (q.pc = "enterPassword" /\ q.prompts = <<>>) =>
                     ~PointerResolves(q.store0)
               /\ q.prompts # <<>> => (offered <=> PointerResolves(q.store0))
               /\ \A i \in 2..Len(q.prompts) : q.prompts[i][1] # "reuse"
               /\ (offered /\ q.prompts[1][2] = "confirm") =>
                     /\ q.pc \in {"lookupKey", "done"}
                     /\ Len(q.prompts) = 1
                     /\ q.writes = <<>> /\ store = q.store0
                     /\ q.aead # <<>> /\ q.aead[1] = "encrypt"
                     /\ q.encKey = Z85Decode(q.store0[q.store0[DEFAULT_KEY]])
                     /\ EnvelopeOf(q.token).keyBuffer
                           = Z85Decode(q.store0[DEFAULT_KEY])
                     /\ q.ok => q.result = q.token

\* The last password has been accepted and the selection masked with it.
C12_Witness ==
    \E r \in Reqs :
        /\ req[r].op = "mask" /\ req[r].pc = "done"
        /\ req[r].prompts = <<<<"reuse", "confirm">>>>
        /\ req[r].ok /\ req[r].writes = <<>>
        /\ req[r].encKey = ValueBufferOf(<<98>>)

\* C13: once the store maps an identifier to key material, every later state
\* maps that identifier to the same key material: no step changes or removes
\* a record.
C13_RecordsImmutable ==
    [][\A k \in DOMAIN store \ {DEFAULT_KEY} :
          k \in DOMAIN store' /\ store'[k] = store[k]]_vars

\* C14: a request that ended in an error has left the secret store (records
\* and default pointer) and the document as they were when it began.
C14_FailedLeavesUntouched ==
    \A r \in Reqs :
        LET q == req[r]
        IN  (q.op \in {"mask", "copy"} /\ q.pc = "done" /\ ~q.ok /\ q.msgs # {}) =>
               (store = q.store0 /\ doc = q.doc0)

\* A prompt the user dismissed: the reuse dialog closed, or an input box that
\* returned no entry.
Dismissed(prompt) ==
    IF prompt[1] = "reuse" THEN prompt[2] = "dismiss" ELSE prompt[2] = <<>>

\* C15: when the user dismisses a prompt of an encrypt or decrypt request
\* (reuse dialog, password entry, confirmation entry), no other prompt
\* follows and the request ends without a write to the secret store and
\* without a change of the document.
C15_DismissIsCleanCancel ==
    \A r \in Reqs :
        LET q == req[r]
        IN  q.op \in {"mask", "copy"} =>
               \A i \in 1..Len(q.prompts) :
                  Dismissed(q.prompts[i]) =>
                     /\ i = Len(q.prompts)
                     /\ q.pc = "done"
                     /\ ~q.ok /\ q.result = <<>>
                     /\ q.writes = <<>> /\ store = q.store0
                     /\ q.edits = <<>> /\ doc = q.doc0
                     /\ q.aead = <<>>

\* The confirmation entry of a mask request has been dismissed while a
\* pointer and a record were stored.
C15_Witness ==
    \E r \in Reqs :
        /\ req[r].op = "mask" /\ req[r].pc = "done"
        /\ req[r].prompts = <<<<"reuse", "cancel">>, <<"password", <<99>>>>,
                              <<"confirm", <<>>>>>>
        /\ DEFAULT_KEY \in DOMAIN store
        /\ store = req[r].store0

\* The characters of the transport alphabet.
Z85Alphabet == {z85EncodeTable[i] : i \in 1..Len(z85EncodeTable)}

\* A store write is the pointer to an encoded identifier, or an encoded
\* identifier with the encoding of key material that has this identifier.
WellFormedWrite(key, value) ==
    \/ /\ key = DEFAULT_KEY
       /\ Len(Z85Decode(value)) = KEY_SIZE
       /\ value = Z85Encode(Z85Decode(value))
    \/ /\ Len(Z85Decode(key)) = KEY_SIZE
       /\ key = Z85Encode(Z85Decode(key))
       /\ Len(Z85Decode(value)) = 32
       /\ value = Z85Encode(Z85Decode(value))
       /\ KeyBufferOf(Z85Decode(value)) = Z85Decode(key)

\* C16: every write to the secret store, and so every entry of the store, is
\* either DEFAULT_KEY with the encoding of a key identifier or the encoding of
\* a key identifier with the encoding of the key material it identifies; no
\* password a user entered is a key or a value.
C16_NoRawPassword ==
    /\ \A k \in DOMAIN store :
          /\ WellFormedWrite(k, store[k])
          /\ k \notin Passwords /\ store[k] \notin Passwords
    /\ \A r \in Reqs :
          \A i \in 1..Len(req[r].writes) :
             LET w == req[r].writes[i]
             IN  /\ WellFormedWrite(w[1], w[2])
                 /\ \A pw \in PromptAnswers(req[r], "password")
                              \cup PromptAnswers(req[r], "confirm") :
                       w[1] # pw /\ w[2] # pw
                 /\ \E pw \in PromptAnswers(req[r], "password") :
                       \/ w = <<DEFAULT_KEY, RecordKey(pw)>>
                       \/ w = <<RecordKey(pw), RecordValue(pw)>>

\* A request has written the pointer and the record of a new password.
C16_Witness ==
    \E r \in Reqs :
        /\ Len(req[r].writes) = 2
        /\ req[r].writes[1][1] = DEFAULT_KEY
        /\ req[r].writes[2][1] = req[r].writes[1][2]
        /\ store[DEFAULT_KEY] \in DOMAIN store

\* C17: Z85.decode of a string that contains a character outside the
\* 85-symbol alphabet returns no decoded bytes.
C17_ForeignRejected ==
    (cpc = "decoded" /\ \E i \in 1..Len(cStr) : cStr[i] \notin Z85Alphabet) =>
        cOut = <<>>

\* C18: every character of a token that encryptText returned belongs to the
\* 85-symbol alphabet, which has no '>', and MASK_PATTERN matches the text
\* maskSelection writes for the token once, as a whole, capturing exactly the
\* token.
C18_TokenInsideDelimiters ==
    /\ 62 \notin Z85Alphabet
    /\ \A i \in issued :
          /\ \A j \in 1..Len(i.token) : i.token[j] \in Z85Alphabet
          /\ MatchAll(MaskedText(i.token))
                = <<[whole |-> MaskedText(i.token), group |-> i.token]>>
    /\ \A r \in Reqs :
          \A j \in 1..Len(req[r].edits) :
             MatchAll(req[r].edits[j])
                = <<[whole |-> req[r].edits[j], group |-> req[r].result]>>

\* A token has been written into the document, where the pattern finds it.
C18_Witness ==
    \E r \in Reqs :
        /\ req[r].op = "mask" /\ req[r].ok
        /\ Len(req[r].edits) = 1
        /\ \E i \in 1..Len(MatchAll(doc)) :
              MatchAll(doc)[i].group = req[r].result

\* The request ended at the reuse dialog, which names no error kind.
EndedAtReuseDialog(q) ==
    /\ q.prompts # <<>>
    /\ q.prompts[Len(q.prompts)][1] = "reuse"

\* C19: every encrypt or decrypt request that ends without its result
\* because of an error (not because the reuse dialog was closed, and not for
\* an empty token) has shown at least one message with text.
C19_EveryFailureReported ==
    \A r \in Reqs :
        LET q == req[r]
        IN  (/\ q.op \in {"mask", "copy"}
             /\ q.pc = "done" /\ ~q.ok
             /\ ~EndedAtReuseDialog(q)
             /\ (q.op = "copy" => q.token # <<>>)) =>
               \E m \in q.msgs : MessageText(m) # ""

\* The selection with each match of the pattern replaced by the text its
\* decryption returned, a match whose decryption failed left as it is.
RECURSIVE ExpectedCopy(_, _, _, _)
ExpectedCopy(text, from, k, results) ==
    LET P == {p \in from..Len(text) : MatchAt(text, p).found}
    IN  IF P = {} \/ k > Len(results) THEN SubSeq(text, from, Len(text))
        ELSE LET p == CHOOSE x \in P : \A y \in P : x <= y
                 m == MatchAt(text, p)
             IN  SubSeq(text, from, p - 1)
                 \o (IF results[k].ok THEN results[k].text ELSE m.whole)
                 \o ExpectedCopy(text, m.end + 1, k + 1, results)

\* C20: a finished copy command has written to the clipboard exactly when
\* the decryption of at least one token of the selection succeeded; what it
\* wrote is the selection with each decrypted token replaced by its
\* plaintext and each failed token left as it was; when it wrote nothing the
\* editor's copy action ran.
C20_ClipboardDecryptedOnly ==
    \A r \in Reqs :
        LET q == req[r]
            some == \E k \in 1..Len(q.decoded) : q.decoded[k].ok
        IN  (q.op = "smartcopy" /\ q.pc = "done") =>
               /\ Len(q.decoded) = Len(q.matches)
               /\ IF some
                  THEN /\ q.clips = <<ExpectedCopy(q.text, 1, 1, q.decoded)>>
                       /\ clipboard = q.clips[1]
                       /\ ~q.defaultCopy
                  ELSE /\ q.clips = <<>>
                       /\ q.defaultCopy

\* C21: under every interleaving of two requests, the identifier embedded
\* in a token that an encrypt request returned is the one derived from the
\* key material its AEAD encryption used.
C21_TokenNamesItsKey ==
    /\ \A i \in issued :
          EnvelopeOf(i.token).keyBuffer = KeyBufferOf(i.key)
    /\ \A r \in Reqs :
          (req[r].op = "mask" /\ req[r].ok) =>
             EnvelopeOf(req[r].result).keyBuffer = KeyBufferOf(req[r].encKey)

\* A mask request that began while the pointer named "a" and accepted the
\* reuse offer has returned its token; the other request, begun before that
\* token was written, has set the pointer and currentKey to another
\* identifier.
C21_Witness ==
    \E r, s \in Reqs :
        /\ r # s
        /\ req[r].op = "mask" /\ req[r].ok
        /\ req[r].prompts = <<<<"reuse", "confirm">>>>
        /\ req[s].op = "mask" /\ req[s].doc0 = InitialDoc
        /\ <<DEFAULT_KEY, KeyBase64Of(<<99>>)>> \in
              {req[s].writes[j] : j \in 1..Len(req[s].writes)}
        /\ SecretsGet(DEFAULT_KEY) = KeyBase64Of(<<99>>)
        /\ currentKey = KeyBase64Of(<<99>>)
        /\ EnvelopeOf(req[r].result).keyBuffer = KeyBufferOf(ValueBufferOf(<<97>>))

\* The request is suspended at an interactive prompt.
AtPrompt(q) == q.pc \in {"reuseDialog", "enterPassword", "confirmPassword"}

PointerWrites(q) ==
    SelectSeq(q.writes, LAMBDA w : w[1] = DEFAULT_KEY)

\* The password an encrypt request took from a fresh prompt and accepted:
\* it matched a stored record, or it was new and the confirmation matched;
\* <<>> when there is none.
AcceptedPassword(q) ==
    LET typed == PromptAnswers(q, "password") \ {<<>>}
        again == PromptAnswers(q, "confirm")
    IN  IF q.op = "mask" /\ typed # {}
           /\ (q.known = "yes" \/ (q.known = "no" /\ again = typed))
        THEN CHOOSE p \in typed : TRUE
        ELSE <<>>

\* C23: a finished request has written the pointer exactly when it is an
\* encrypt request that accepted a freshly typed password (the store not
\* having rejected a call), and then once, with that password's identifier;
\* a request that accepted the reuse offer, a decrypt request and a request
\* that ended without its result have left the pointer as it was.
C23_PointerWrittenOnAccept ==
    \A r \in Reqs :
        LET q == req[r]
            p == AcceptedPassword(q)
        IN  (q.op \in {"mask", "copy"} /\ q.pc = "done") =>
               /\ (p # <<>> /\ "errors.setPasswordFailed" \notin q.msgs) =>
                     PointerWrites(q) = <<<<DEFAULT_KEY, KeyBase64Of(p)>>>>
               /\ p = <<>> => PointerWrites(q) = <<>>
               /\ (q.op = "copy" \/ ~q.ok) =>
                     /\ PointerWrites(q) = <<>>
                     /\ SecretsGet(DEFAULT_KEY) = IF DEFAULT_KEY \in DOMAIN q.store0
                                                  THEN q.store0[DEFAULT_KEY]
                                                  ELSE <<>>

\* C24: slicing the serialization of (iv, keyId, version, ciphertext) gives
\* back the same four fields, for every ciphertext length from 0 on.
C24_LayoutRoundTrip ==
    cpc = "parsed" => cOut = cIn

\* A serialization whose ciphertext is three bytes long, so that the codec
\* pads it, has been parsed.
C24_Witness ==
    /\ cpc = "parsed"
    /\ Len(cIn[4]) = 3
    /\ cIn[1] # [i \in 1..IV_SIZE |-> 0]
    /\ cOut[3] = <<255>>

\* C25: a decrypt request for a token that decodes to fewer than the 16
\* bytes of the fixed prefix ends with a malformed-token message, which is
\* not the unsupported-version message, before any secret-store call,
\* prompt or AEAD call.
C25_TruncatedIsMalformed ==
    \A r \in Reqs :
        LET q == req[r]
        IN  (/\ q.op = "copy" /\ q.pc = "done"
             /\ Len(Z85Decode(q.token)) < IV_SIZE + KEY_SIZE + 1) =>
               /\ ~q.ok
               /\ \E m \in q.msgs : MessageText(m) # ""
               /\ "errors.unsupportedVersion" \notin q.msgs
               /\ q.secrets = 0 /\ q.prompts = <<>> /\ q.aead = <<>>

\* C26: two tokens returned for the same plaintext carry the same IV
\* field, whatever the passwords; returned for the same plaintext under the
\* same key material they are the same token, whatever the store held, the
\* pointer named and the other request did.
C26_DeterministicToken ==
    /\ \A i, j \in issued :
          i.text = j.text =>
             /\ EnvelopeOf(i.token).hashBuffer = EnvelopeOf(j.token).hashBuffer
             /\ i.key = j.key => i.token = j.token
    /\ \A r, s \in Reqs :
          (/\ req[r].op = "mask" /\ req[r].ok
           /\ req[s].op = "mask" /\ req[s].ok
           /\ req[r].text = req[s].text) =>
             /\ EnvelopeOf(req[r].result).hashBuffer
                   = EnvelopeOf(req[s].result).hashBuffer
             /\ req[r].encKey = req[s].encKey => req[r].result = req[s].result

\* Two requests have returned a token for "h" under the key material of
\* "a": one accepted the reuse offer, the other typed the password.
C26_Witness ==
    \E r, s \in Reqs :
        /\ r # s
        /\ req[r].op = "mask" /\ req[r].ok /\ req[r].text = <<104>>
        /\ req[s].op = "mask" /\ req[s].ok /\ req[s].text = <<104>>
        /\ req[r].encKey = ValueBufferOf(<<97>>)
        /\ req[s].encKey = ValueBufferOf(<<97>>)
        /\ req[r].prompts = <<<<"reuse", "confirm">>>>
        /\ PromptAnswers(req[s], "password") = {<<97>>}

\* C27: in every state, between the steps of a request and after a rejected
\* store call too, a pointer that is set names an identifier under which
\* the store holds a record.
C27_PointerNeverDangles ==
    SecretsGet(DEFAULT_KEY) # <<>> =>
        SecretsGet(SecretsGet(DEFAULT_KEY)) # <<>>

\* C28: the text a mask request replaced with its token is the text it
\* encrypted into the token, whatever the other request did to the document
\* while this one was suspended.
C28_ReplacesWhatItEncrypted ==
    \A r \in Reqs :
        (req[r].op = "mask" /\ req[r].ok) =>
            req[r].replaced = <<req[r].text>>

\* C29: in the locale in use the two items of the reuse dialog have
\* different titles, and an encrypt request whose reuse dialog was answered
\* with the cancel item has not been given the stored last password: it is
\* at the password prompt or has been through it.
C29_ReuseAnswersDistinct ==
    /\ T("prompts.confirm") # T("prompts.cancel")
    /\ \A r \in Reqs :
          LET q == req[r]
          IN  (q.op = "mask" /\ q.prompts # <<>>
               /\ q.prompts[1] = <<"reuse", "cancel">>) =>
                 IF Len(q.prompts) = 1
                 THEN q.pc = "enterPassword" /\ q.encKey = <<>>
                 ELSE q.prompts[2][1] = "password"

====
